---- MODULE Spec2Model ----
(***************************************************************************)
(* Job orchestration and progress streaming of the Lattice backend:        *)
(*   backend/app/services/background_tasks.py  (run_beautify_job,          *)
(*                                              _beautify_single_page)     *)
(*   backend/app/services/event_stream.py      (EventStreamManager)        *)
(*   backend/app/api/v1/documents.py           (beautify_document)         *)
(*                                                                         *)
(* One document, one job id.  A run of run_beautify_job is a sequence of   *)
(* steps, one per persistence commit; inside asyncio.gather the page tasks *)
(* of the current batch interleave at their awaits (the transcriber call   *)
(* and the backoff sleep).  Every commit may raise.  A commit that raises  *)
(* leaves the database as it was (the session rolls the transaction back). *)
(* Times are the number of the run that wrote them (0 is None).            *)
(***************************************************************************)
EXTENDS Integers, Sequences, FiniteSets, TLC

\* ---------------------------------------------------------------- bounds
MaxPages == 3
MaxRuns == 2
MaxBatchPages == 9
MaxWindow == 4
MaxStreams == 2
MaxEvents == 3

\* ------------------------------------------------------ program constants
MAX_RETRIES == 3
CONCURRENT_PAGES == 2

JobIds == {1}
PageNos == 1..MaxPages

VARIABLES
    hasJob,        \* session.get(Job, job_id) finds a record (job_id given and present)
    docExists,     \* the Document row exists
    job,           \* the persisted Job row
    docStatus,     \* the persisted Document.status
    pages,         \* the persisted Page rows of the document, in insertion order
    streams,       \* EventStreamManager.streams: job id -> queue, or NoStream
    pc,            \* position of the run inside run_beautify_job
    run,           \* number of the current invocation of run_beautify_job
    page_count,    \* local page_count
    batch_start,   \* local batch_start
    page_results,  \* local page_results: page -> text, NoResult when absent
    task,          \* the _beautify_single_page coroutines of the current batch
    hist,          \* per page, what the transcriber was asked and answered in this run
    published,     \* the events this run has published, in order
    raised,        \* how many commits of this run raised
    window,        \* the window size of the batch loop (CONCURRENT_PAGES in a run)
    batches,       \* the batch_pages the loop has formed, in order
    consumer,      \* the stream_events generator of the attached client
    delivered,     \* the data events the current generator has yielded, in order
    opened,        \* how many times stream_events was called
    endings,       \* how each finished generator ended, in order
    counted,       \* how the run obtained page_count
    doc_pages,     \* the page numbers of doc.pages as loaded by the run's query
    worker,        \* the run executes in an RQ worker process, not in the API process
    wstreams,      \* event_manager.streams of the worker process
    other,         \* a run of a second job of the same document
    visual,        \* a beautify_document_streaming generator
    job_id,        \* the job_id argument of run_beautify_job (0: None)
    readers,       \* two stream_events generators of the same job id
    orphan,        \* the queue a generator still holds after its removal from the manager
    request        \* a beautify_document request

\* what run_beautify_job reads and writes, and the record of what it did
runVars == <<hasJob, docExists, job, docStatus, pages, pc, run, page_count,
             batch_start, page_results, task, hist, published, raised, window, batches,
             counted, doc_pages>>

\* what belongs to other processes and other requests
sideVars == <<worker, other, visual, job_id, readers, orphan, request>>

\* the state of the client side of EventStreamManager
streamVars == <<consumer, delivered, opened, endings>>

vars == <<hasJob, docExists, job, docStatus, pages, streams, pc, run, page_count,
          batch_start, page_results, task, hist, published, raised, window, batches,
          consumer, delivered, opened, endings, counted, doc_pages, worker, wstreams,
          other, visual, job_id, readers, orphan, request>>

\* ------------------------------------------------------------ strings
\* A page text is a record; only its prefix ("[Error" or not) and its origin
\* matter to the code.
NoResult == [kind |-> "absent", page |-> 0, attempt |-> 0]

\* what beautify_page returns on success for page p at attempt a
TranscribedText(p, a) == [kind |-> "text", page |-> p, attempt |-> a]

\* what beautify_page returns as its own soft failure: "[Error ...]"
TranscriberMarker(p, a) == [kind |-> "marker", page |-> p, attempt |-> a]

\* f"[Error: Failed after {MAX_RETRIES} retries: {str(e)}]"
FailedAfterRetries(p, a) == [kind |-> "failed_after_retries", page |-> p, attempt |-> a]

\* "[Error: Unexpected retry loop exit]"
UnexpectedExit(p) == [kind |-> "unexpected_exit", page |-> p, attempt |-> 0]

\* "[Error: page not processed]"
NotProcessed(p) == [kind |-> "not_processed", page |-> p, attempt |-> 0]

\* result and result.startswith("[Error"): every text of the model is non-empty
StartsWithError(r) ==
    r.kind \in {"marker", "failed_after_retries", "unexpected_exit", "not_processed"}

\* ------------------------------------------------------------ job rows
Terminal == {"completed", "error"}

\* Job(document_id=..., status="queued", progress=0, message="Queued")
QueuedJob ==
    [status |-> "queued", progress |-> 0, message |-> "Queued",
     started_at |-> 0, finished_at |-> 0]

NoJob ==
    [status |-> "none", progress |-> 0, message |-> "",
     started_at |-> 0, finished_at |-> 0]

\* job.status = "running"; job.started_at = utcnow(); job.progress = 5; ...
StartedJob(j, now) ==
    [j EXCEPT !.status = "running", !.started_at = now, !.progress = 5,
              !.message = "Starting beautification"]

\* job.status = "error"; job.message = "Document not found"; job.progress = 0
DocMissingJob(j) ==
    [j EXCEPT !.status = "error", !.message = "Document not found", !.progress = 0]

\* mutant: progress is the plain percentage of the pages reached
CurrentProgressPercent(s, n) == (s * 100) \div n

\* mutant: progress computed from the pages left instead of the pages reached
CurrentProgressRemaining(s, n) == 10 + (((n - s) * 80) \div n)

\* current_progress = 10 + int((batch_start / page_count) * 80)
\* (the float expression equals the integer floor for every 1 <= s <= n < 400)
CurrentProgress(s, n) == 10 + ((s * 80) \div n)

\* job.progress = current_progress; job.message = page_msg
ProgressJob(j, s, n) ==
    [j EXCEPT !.progress = CurrentProgress(s, n), !.message = "Processing page(s)"]

\* job.progress = 100; job.status = "completed"; ...; job.finished_at = utcnow()
CompletedJob(j, now) ==
    [j EXCEPT !.progress = 100, !.status = "completed",
              !.message = "Beautification complete", !.finished_at = now]

\* mutant: the handler puts the job back in the queue instead of failing it
FailedJobRequeued(j, now) ==
    [j EXCEPT !.status = "queued", !.message = "exception", !.progress = 0,
              !.finished_at = now]

\* job.status = "error"; job.message = str(e); job.progress = 0; job.finished_at = utcnow()
FailedJob(j, now) ==
    [j EXCEPT !.status = "error", !.message = "exception", !.progress = 0,
              !.finished_at = now]

\* ------------------------------------------------------------ events
\* a job id without an entry in streams
NoStream == [exists |-> FALSE, q |-> <<>>]

\* {"type": event_type, "data": data}: the keys of data the claims read; a key
\* the event does not carry is 0.  No event of run_beautify_job carries a
\* key successful (lines 73, 89, 125, 175, 196).
Event(type, progress, page, total) ==
    [type |-> type, progress |-> progress, page |-> page, total_pages |-> total,
     successful |-> 0]

TerminalTypes == {"complete", "error"}

\* mutant: a new queue is installed even when the job already has one
create_stream_replaces(s, j) == [s EXCEPT ![j] = [exists |-> TRUE, q |-> <<>>]]

\* EventStreamManager.create_stream
create_stream(s, j) ==
    IF ~s[j].exists THEN [s EXCEPT ![j] = [exists |-> TRUE, q |-> <<>>]] ELSE s

\* mutant: the event is put at the front of the queue
publish_event_front(s, j, ev) ==
    LET c == create_stream(s, j) IN [c EXCEPT ![j].q = <<ev>> \o @]

\* EventStreamManager.publish_event: the queue is created when absent, the put
\* on an unbounded asyncio.Queue does not fail
publish_event(s, j, ev) ==
    LET c == create_stream(s, j) IN [c EXCEPT ![j].q = Append(@, ev)]

jid == CHOOSE j \in JobIds : TRUE

\* ------------------------------------------------------------ batches
\* mutant: the bound of the last batch is page_count, not page_count + 1
BatchEndForLosesLast(s, n, w) == IF s + w < n THEN s + w ELSE n

\* line 109 for a window size w: min(batch_start + w, page_count + 1)
BatchEndFor(s, n, w) == IF s + w < n + 1 THEN s + w ELSE n + 1

\* line 110 for a window size w
BatchPagesFor(s, n, w) == s .. (BatchEndFor(s, n, w) - 1)

\* mutant: the batch end is one page too far
BatchEndOffByOne(s, n) ==
    IF s + CONCURRENT_PAGES + 1 < n + 1 THEN s + CONCURRENT_PAGES + 1 ELSE n + 1

\* batch_end = min(batch_start + CONCURRENT_PAGES, page_count + 1)
BatchEnd(s, n) == BatchEndFor(s, n, CONCURRENT_PAGES)

\* batch_pages = list(range(batch_start, batch_end))
BatchPages(s, n) == s .. (BatchEnd(s, n) - 1)

\* mutant: the loop steps by one page instead of one window
NextBatchStartByOne(s, w) == s + 1

\* line 108: range(1, page_count + 1, w) steps by the window size
NextBatchStart(s, w) == s + w

\* ------------------------------------------------------------ page rows
RECURSIVE IndexOfPage(_, _, _)
\* next((p for p in doc.pages if p.page_number == i), None): index of the row, 0 for None
IndexOfPage(rows, i, k) ==
    IF k > Len(rows) THEN 0
    ELSE IF rows[k].page_number = i THEN k
    ELSE IndexOfPage(rows, i, k + 1)

\* mutant: the lookup never finds the page (a key of the wrong type)
ResultForWrongKey(results, i) == NotProcessed(i)

\* the page numbers of a list of page rows
PageNumbers(rows) == {rows[k].page_number : k \in 1..Len(rows)}

\* page_results.get(i, "[Error: page not processed]")
ResultFor(results, i) == IF results[i] = NoResult THEN NotProcessed(i) ELSE results[i]

\* the text a run of another invocation stored or stores for page p
TextOfOtherRun(p) == [kind |-> "text", page |-> p, attempt |-> 0]

\* mutant: a row is added for every page, loaded or not
RECURSIVE PersistPagesAlwaysAdds(_, _, _, _, _)
PersistPagesAlwaysAdds(rows, loaded, results, i, n) ==
    IF i > n THEN rows
    ELSE PersistPagesAlwaysAdds(
             Append(rows, [page_number |-> i, beautified_text |-> ResultFor(results, i)]),
             loaded, results, i + 1, n)

RECURSIVE PersistPages(_, _, _, _, _)
\* lines 144-159: for i in range(1, page_count + 1): the row of page i found in
\* doc.pages (the rows loaded at line 58) is updated, otherwise a row is added
PersistPages(rows, loaded, results, i, n) ==
    IF i > n THEN rows
    ELSE LET text == ResultFor(results, i)
             next == IF i \in loaded
                     THEN [rows EXCEPT ![IndexOfPage(rows, i, 1)].beautified_text = text]
                     ELSE Append(rows, [page_number |-> i, beautified_text |-> text])
         IN PersistPages(next, loaded, results, i + 1, n)

\* mutant: the page table accepts a second row with the same page number
PageNumbersFreeUnchecked(rows, loaded, n) == TRUE

\* page_number is unique within a document: the commit of a row whose page
\* number another row of the document has is refused
PageNumbersFree(rows, loaded, n) ==
    \A i \in 1..n : i \in loaded \/ i \notin PageNumbers(rows)

\* ------------------------------------------------------------ page tasks
NoTask == [st |-> "none", attempt |-> 0, ret |-> NoResult]
NoHist == [calls |-> 0, firstOk |-> 0, returned |-> FALSE, delays |-> <<>>]

\* mutant: one attempt more than the budget
RetryLeftOffByOne(attempt) == attempt <= MAX_RETRIES

\* if attempt < MAX_RETRIES: retry after the backoff
RetryLeft(attempt) == attempt < MAX_RETRIES

\* mutant: a successful answer is retried like a failed one while budget is left
AfterReplyRetriesSuccess(p, t, reply) ==
    IF t.attempt < MAX_RETRIES
    THEN [t EXCEPT !.st = "sleeping"]
    ELSE CASE reply = "text" ->
                 [t EXCEPT !.st = "done", !.ret = TranscribedText(p, t.attempt)]
           [] reply = "marker" ->
                 [t EXCEPT !.st = "done", !.ret = TranscriberMarker(p, t.attempt)]
           [] OTHER ->
                 [t EXCEPT !.st = "done", !.ret = FailedAfterRetries(p, t.attempt)]

\* what one iteration of the retry loop does with the transcriber's answer:
\* the task's next state.  reply is "text", "marker" or "raise".
AfterReply(p, t, reply) ==
    CASE reply = "text" ->
            [t EXCEPT !.st = "done", !.ret = TranscribedText(p, t.attempt)]
      [] reply = "marker" ->
            IF RetryLeft(t.attempt)
            THEN [t EXCEPT !.st = "sleeping"]
            ELSE [t EXCEPT !.st = "done", !.ret = TranscriberMarker(p, t.attempt)]
      [] OTHER ->
            IF RetryLeft(t.attempt)
            THEN [t EXCEPT !.st = "sleeping"]
            ELSE [t EXCEPT !.st = "done", !.ret = FailedAfterRetries(p, t.attempt)]

Replies == {"text", "marker", "raise"}

\* mutant: the same delay after every failed attempt
BackoffConstant(attempt) == 15

\* lines 22, 31: asyncio.sleep(1.5 * attempt), in tenths of a second
Backoff(attempt) == 15 * attempt

InFlight == {p \in PageNos : task[p].st = "inflight"}

\* mutant: the wait returns as soon as one task of the batch has returned
GatherFirstCompleted(batch) == \E p \in batch : task[p].st = "done"

\* asyncio.gather returns when every task of the batch has returned
GatherReady(batch) == \A p \in batch : task[p].st = "done"

\* mutant: the results are paired with the pages in the order the tasks were
\* created, from the end
GatherResultReversed(t, batch, p) ==
    t[CHOOSE q \in batch :
        Cardinality({r \in batch : r > q}) = Cardinality({r \in batch : r < p})].ret

\* lines 137-140: gather returns the results in the order of the awaitables it
\* was given, whatever order they completed in; zip pairs them with batch_pages
GatherResultFor(t, batch, p) == t[p].ret

\* ------------------------------------------------------------ stream_events
NoEvent == [type |-> "none", progress |-> 0, page |-> 0, total_pages |-> 0,
            successful |-> 0]

\* no generator, or one that has not run yet
NoConsumer == [st |-> "none", cur |-> NoEvent, backlog |-> FALSE]

\* a generator that has ended: its locals are gone
EndedConsumer == [st |-> "closed", cur |-> NoEvent, backlog |-> FALSE]

\* ": keep-alive\n\n"
KeepAlive == [type |-> "keep-alive", progress |-> 0, page |-> 0, total_pages |-> 0,
              successful |-> 0]

\* line 71: {'type': 'error', 'data': {'message': str(e)}}
SynthesizedError == Event("error", 0, 0, 0)

\* mutant: the finally block leaves the queue in the manager
delete_stream_kept(s, j) == s

\* lines 74-75: if job_id in self.streams: del self.streams[job_id]
delete_stream(s, j) == [s EXCEPT ![j] = NoStream]

\* ------------------------------------------------------------ other requests
\* no second run
NoOther == [pc |-> "none", loaded |-> {}, n |-> 0]

\* no beautify_document_streaming generator
NoVisual ==
    [pc |-> "none", total |-> 0, page |-> 0, snap |-> FALSE, successful |-> 0,
     out |-> <<>>]

\* the two generators of the two-client specification
ReaderIds == {1, 2}

\* a stream_events generator that has not been started
NoReader == [st |-> "none", cur |-> NoEvent, got |-> <<>>, own |-> FALSE]

\* no beautify_document request
NoRequest ==
    [pc |-> "none", jobs |-> 0, enqueued |-> 0, tasks |-> 0, redis |-> FALSE,
     outcome |-> "none"]

\* ------------------------------------------------------------ Init
Init ==
    /\ hasJob \in BOOLEAN
    /\ docExists \in BOOLEAN
    /\ job = IF hasJob THEN QueuedJob ELSE NoJob
    /\ docStatus = IF docExists THEN "processing" ELSE "none"
    /\ pages = <<>>
    /\ streams = [j \in JobIds |-> NoStream]
    /\ pc = "scheduled"
    /\ run = 1
    /\ page_count = 0
    /\ batch_start = 0
    /\ page_results = [p \in PageNos |-> NoResult]
    /\ task = [p \in PageNos |-> NoTask]
    /\ hist = [p \in PageNos |-> NoHist]
    /\ published = <<>>
    /\ raised = 0
    /\ window = CONCURRENT_PAGES
    /\ batches = <<>>
    /\ consumer = NoConsumer
    /\ delivered = <<>>
    /\ opened = 0
    /\ endings = <<>>
    /\ counted = "none"
    /\ doc_pages = {}
    /\ worker = FALSE
    /\ wstreams = [j \in JobIds |-> NoStream]
    /\ other = NoOther
    /\ visual = NoVisual
    /\ job_id = IF hasJob THEN jid ELSE 0
    /\ readers = [c \in ReaderIds |-> NoReader]
    /\ orphan = <<>>
    /\ request = NoRequest

\* event_manager is a module global (event_stream.py line 80): the run publishes
\* to the manager of the process it executes in
Publish(ev) ==
    /\ IF worker
       THEN /\ wstreams' = publish_event(wstreams, jid, ev)
            /\ UNCHANGED streams
       ELSE /\ streams' = publish_event(streams, jid, ev)
            /\ UNCHANGED wstreams
    /\ published' = Append(published, ev)

\* ------------------------------------------------------------ run_beautify_job
\* lines 56-76: load the document and the job, mark the job running, commit,
\* publish the start event.  The commit is outside the try block.
RunStart ==
    /\ pc = "scheduled"
    /\ IF hasJob
       THEN \E ok \in BOOLEAN :
              IF ok
              THEN /\ job' = StartedJob(job, run)
                   /\ Publish(Event("start", 5, 0, 0))
                   /\ pc' = "loaded"
                   /\ UNCHANGED raised
              ELSE /\ raised' = raised + 1
                   /\ pc' = "raised"
                   /\ UNCHANGED <<job, streams, wstreams, published>>
       ELSE /\ pc' = "loaded"
            /\ UNCHANGED <<job, streams, wstreams, published, raised>>
    /\ UNCHANGED <<hasJob, docExists, docStatus, pages, run, page_count, batch_start,
                   page_results, task, hist>>
    /\ UNCHANGED <<window, batches>>
    /\ UNCHANGED streamVars
    /\ doc_pages' = IF docExists THEN PageNumbers(pages) ELSE {}
    /\ UNCHANGED counted
    /\ UNCHANGED sideVars

\* lines 78-92: the document is missing.  Outside the try block.
DocNotFound ==
    /\ pc = "loaded"
    /\ ~docExists
    /\ IF hasJob
       THEN \E ok \in BOOLEAN :
              IF ok
              THEN /\ job' = DocMissingJob(job)
                   /\ Publish(Event("error", 0, 0, 0))
                   /\ pc' = "returned"
                   /\ UNCHANGED raised
              ELSE /\ raised' = raised + 1
                   /\ pc' = "raised"
                   /\ UNCHANGED <<job, streams, wstreams, published>>
       ELSE /\ pc' = "returned"
            /\ UNCHANGED <<job, streams, wstreams, published, raised>>
    /\ UNCHANGED <<hasJob, docExists, docStatus, pages, run, page_count, batch_start,
                   page_results, task, hist>>
    /\ UNCHANGED <<window, batches>>
    /\ UNCHANGED streamVars
    /\ UNCHANGED <<counted, doc_pages>>
    /\ UNCHANGED sideVars

\* lines 95-101: page_count is 1 for a file that is no PDF and when
\* get_page_count raises; otherwise it is what get_page_count returns:
\* len(pdf.pages), or 0 when the PDF cannot be opened (document_parser.py 72-77).
PageCountOf(isPdf, raises, returned) ==
    IF ~isPdf THEN 1
    ELSE IF raises THEN 1
    ELSE returned

\* DocumentParser.get_page_count: 1 for a file that is no PDF, len(pdf.pages)
\* for a PDF that pdfplumber opens, 0 when opening it fails
get_page_count(isPdf, opens, n) ==
    IF ~isPdf THEN 1
    ELSE IF opens THEN n
    ELSE 0

\* lines 95-106
CountPages ==
    /\ pc = "loaded"
    /\ docExists
    /\ \E isPdf \in BOOLEAN, raises \in BOOLEAN, opens \in BOOLEAN, n \in 0..MaxPages :
         /\ page_count' = PageCountOf(isPdf, raises, get_page_count(isPdf, opens, n))
         /\ counted' = IF ~isPdf THEN "not_pdf"
                       ELSE IF raises \/ ~opens THEN "failed"
                       ELSE "opened"
    /\ batch_start' = 1
    /\ page_results' = [p \in PageNos |-> NoResult]
    /\ pc' = "batch"
    /\ UNCHANGED <<hasJob, docExists, job, docStatus, pages, streams, wstreams, run, task, hist,
                   published, raised>>
    /\ UNCHANGED <<window, batches>>
    /\ UNCHANGED streamVars
    /\ UNCHANGED doc_pages
    /\ UNCHANGED sideVars

\* mutant: the page coroutines are created before progress is committed and
\* published
BatchBeginUnannounced ==
    /\ pc = "batch"
    /\ batch_start <= page_count
    /\ task' = [p \in PageNos |->
                  IF p \in BatchPages(batch_start, page_count)
                  THEN [st |-> "ready", attempt |-> 1, ret |-> NoResult]
                  ELSE NoTask]
    /\ pc' = "gather"
    /\ UNCHANGED <<hasJob, docExists, job, docStatus, pages, streams, wstreams, run,
                   page_count, batch_start, page_results, hist, published, raised>>
    /\ batches' = Append(batches, BatchPages(batch_start, page_count))
    /\ UNCHANGED window
    /\ UNCHANGED streamVars
    /\ UNCHANGED <<counted, doc_pages>>
    /\ UNCHANGED sideVars

\* lines 108-136: one iteration of the batch loop up to the gather: progress is
\* committed when the job record was found (line 116) and published when a
\* job_id was given (line 124), then the page coroutines of the batch are
\* created.
BatchBegin ==
    /\ pc = "batch"
    /\ batch_start <= page_count
    /\ \E ok \in BOOLEAN :
         IF ok \/ ~hasJob
         THEN /\ job' = IF hasJob THEN ProgressJob(job, batch_start, page_count) ELSE job
              /\ IF job_id \in JobIds
                 THEN Publish(Event("progress", CurrentProgress(batch_start, page_count),
                                    batch_start, page_count))
                 ELSE UNCHANGED <<streams, wstreams, published>>
              /\ task' = [p \in PageNos |->
                            IF p \in BatchPages(batch_start, page_count)
                            THEN [st |-> "ready", attempt |-> 1, ret |-> NoResult]
                            ELSE NoTask]
              /\ pc' = "gather"
              /\ UNCHANGED raised
         ELSE /\ raised' = raised + 1
              /\ pc' = "except"
              /\ UNCHANGED <<job, streams, wstreams, published, task>>
    /\ UNCHANGED <<hasJob, docExists, docStatus, pages, run, page_count, batch_start,
                   page_results, hist>>
    /\ batches' = Append(batches, BatchPages(batch_start, page_count))
    /\ UNCHANGED window
    /\ UNCHANGED streamVars
    /\ UNCHANGED <<counted, doc_pages>>
    /\ UNCHANGED sideVars

\* _beautify_single_page line 17: the call of beautifier.beautify_page starts
TaskCall(p) ==
    /\ pc = "gather"
    /\ task[p].st = "ready"
    /\ task' = [task EXCEPT ![p].st = "inflight"]
    /\ hist' = [hist EXCEPT ![p].calls = @ + 1]
    /\ UNCHANGED <<hasJob, docExists, job, docStatus, pages, streams, wstreams, pc, run, page_count,
                   batch_start, page_results, published, raised>>
    /\ UNCHANGED <<window, batches>>
    /\ UNCHANGED streamVars
    /\ UNCHANGED <<counted, doc_pages>>
    /\ UNCHANGED sideVars

\* _beautify_single_page lines 17-34: the call returns or raises
TaskReply(p) ==
    /\ pc = "gather"
    /\ task[p].st = "inflight"
    /\ \E reply \in Replies :
         /\ task' = [task EXCEPT ![p] = AfterReply(p, task[p], reply)]
         /\ hist' = [hist EXCEPT
                       ![p].firstOk = IF reply = "text" /\ @ = 0 THEN task[p].attempt ELSE @,
                       ![p].returned = (task'[p].st = "done"),
                       ![p].delays = IF task'[p].st = "sleeping"
                                     THEN Append(@, Backoff(task[p].attempt))
                                     ELSE @]
    /\ UNCHANGED <<hasJob, docExists, job, docStatus, pages, streams, wstreams, pc, run, page_count,
                   batch_start, page_results, published, raised>>
    /\ UNCHANGED <<window, batches>>
    /\ UNCHANGED streamVars
    /\ UNCHANGED <<counted, doc_pages>>
    /\ UNCHANGED sideVars

\* _beautify_single_page lines 22, 31: the backoff sleep ends, next attempt
TaskWake(p) ==
    /\ pc = "gather"
    /\ task[p].st = "sleeping"
    /\ task' = [task EXCEPT ![p].st = "ready", ![p].attempt = @ + 1]
    /\ UNCHANGED <<hasJob, docExists, job, docStatus, pages, streams, wstreams, pc, run, page_count,
                   batch_start, page_results, hist, published, raised>>
    /\ UNCHANGED <<window, batches>>
    /\ UNCHANGED streamVars
    /\ UNCHANGED <<counted, doc_pages>>
    /\ UNCHANGED sideVars

\* lines 137-141: gather returns, the results are stored by page number
GatherDone ==
    /\ pc = "gather"
    /\ GatherReady(BatchPages(batch_start, page_count))
    /\ page_results' = [p \in PageNos |->
                          IF p \in BatchPages(batch_start, page_count)
                          THEN GatherResultFor(task, BatchPages(batch_start, page_count), p)
                          ELSE page_results[p]]
    /\ task' = [p \in PageNos |-> NoTask]
    /\ batch_start' = NextBatchStart(batch_start, CONCURRENT_PAGES)
    /\ pc' = "batch"
    /\ UNCHANGED <<hasJob, docExists, job, docStatus, pages, streams, wstreams, run, page_count,
                   hist, published, raised>>
    /\ UNCHANGED <<window, batches>>
    /\ UNCHANGED streamVars
    /\ UNCHANGED <<counted, doc_pages>>
    /\ UNCHANGED sideVars

\* lines 143-163: all page rows and the document status in one commit; the
\* commit raises when it fails and when a row it adds is refused
Persist ==
    /\ pc = "batch"
    /\ batch_start > page_count
    /\ \E ok \in BOOLEAN :
         IF ok /\ PageNumbersFree(pages, doc_pages, page_count)
         THEN /\ pages' = PersistPages(pages, doc_pages, page_results, 1, page_count)
              /\ docStatus' = "beautified"
              /\ pc' = "persisted"
              /\ UNCHANGED raised
         ELSE /\ raised' = raised + 1
              /\ pc' = "except"
              /\ UNCHANGED <<pages, docStatus>>
    /\ UNCHANGED <<hasJob, docExists, job, streams, wstreams, run, page_count, batch_start,
                   page_results, task, hist, published>>
    /\ UNCHANGED <<window, batches>>
    /\ UNCHANGED streamVars
    /\ UNCHANGED <<counted, doc_pages>>
    /\ UNCHANGED sideVars

\* lines 165-180: the job is completed and the complete event published
Complete ==
    /\ pc = "persisted"
    /\ IF hasJob
       THEN \E ok \in BOOLEAN :
              IF ok
              THEN /\ job' = CompletedJob(job, run)
                   /\ Publish(Event("complete", 100, 0, 0))
                   /\ pc' = "returned"
                   /\ UNCHANGED raised
              ELSE /\ raised' = raised + 1
                   /\ pc' = "except"
                   /\ UNCHANGED <<job, streams, wstreams, published>>
       ELSE /\ pc' = "returned"
            /\ UNCHANGED <<job, streams, wstreams, published, raised>>
    /\ UNCHANGED <<hasJob, docExists, docStatus, pages, run, page_count, batch_start,
                   page_results, task, hist>>
    /\ UNCHANGED <<window, batches>>
    /\ UNCHANGED streamVars
    /\ UNCHANGED <<counted, doc_pages>>
    /\ UNCHANGED sideVars

\* lines 182-200: the handler of the try block; its own commit may raise too
HandleException ==
    /\ pc = "except"
    /\ \E ok \in BOOLEAN :
         IF ok
         THEN /\ docStatus' = "error"
              /\ IF hasJob
                 THEN /\ job' = FailedJob(job, run)
                      /\ Publish(Event("error", 0, 0, 0))
                 ELSE UNCHANGED <<job, streams, wstreams, published>>
              /\ pc' = "returned"
              /\ UNCHANGED raised
         ELSE /\ raised' = raised + 1
              /\ pc' = "raised"
              /\ UNCHANGED <<docStatus, job, streams, wstreams, published>>
    /\ UNCHANGED <<hasJob, docExists, pages, run, page_count, batch_start,
                   page_results, task, hist>>
    /\ UNCHANGED <<window, batches>>
    /\ UNCHANGED streamVars
    /\ UNCHANGED <<counted, doc_pages>>
    /\ UNCHANGED sideVars

RunOver == pc \in {"returned", "raised"}

\* documents.py lines 123-143: the run is handed to an at-least-once queue
\* (q.enqueue) or to the event loop; the queue may deliver it again after the
\* previous delivery has ended.
Redeliver ==
    /\ RunOver
    /\ run < MaxRuns
    /\ run' = run + 1
    /\ pc' = "scheduled"
    /\ page_count' = 0
    /\ batch_start' = 0
    /\ page_results' = [p \in PageNos |-> NoResult]
    /\ task' = [p \in PageNos |-> NoTask]
    /\ hist' = [p \in PageNos |-> NoHist]
    /\ published' = <<>>
    /\ raised' = 0
    /\ batches' = <<>>
    /\ UNCHANGED <<hasJob, docExists, job, docStatus, pages, streams, wstreams, window>>
    /\ UNCHANGED streamVars
    /\ counted' = "none"
    /\ doc_pages' = {}
    /\ UNCHANGED sideVars

Next ==
    \/ RunStart
    \/ DocNotFound
    \/ CountPages
    \/ BatchBegin
    \/ \E p \in PageNos : TaskCall(p)
    \/ \E p \in PageNos : TaskReply(p)
    \/ \E p \in PageNos : TaskWake(p)
    \/ GatherDone
    \/ Persist
    \/ Complete
    \/ HandleException

\* one invocation of run_beautify_job
Spec == Init /\ [][Next]_vars

\* ------------------------------------------------------------ stream_events
\* One client generator is live at a time (the queue is single-consumer); a
\* new one may be opened when the previous one has ended.
ConsumerLive == consumer.st \in {"waiting", "yielded", "failed"}

\* lines 46-49: the generator starts: the queue is created when absent
StreamOpen ==
    /\ ~ConsumerLive
    /\ opened < MaxStreams
    /\ streams' = create_stream(streams, jid)
    /\ consumer' = [st |-> "waiting", cur |-> NoEvent, backlog |-> streams[jid].q # <<>>]
    /\ delivered' = <<>>
    /\ opened' = opened + 1
    /\ UNCHANGED endings
    /\ UNCHANGED runVars
    /\ UNCHANGED wstreams
    /\ UNCHANGED sideVars

\* lines 55-59: queue.get() returns the oldest event, which is yielded
StreamGet ==
    /\ consumer.st = "waiting"
    /\ streams[jid].q # <<>>
    /\ consumer' = [consumer EXCEPT !.st = "yielded", !.cur = Head(streams[jid].q)]
    /\ streams' = [streams EXCEPT ![jid].q = Tail(@)]
    /\ delivered' = Append(delivered, Head(streams[jid].q))
    /\ UNCHANGED <<opened, endings>>
    /\ UNCHANGED runVars
    /\ UNCHANGED wstreams
    /\ UNCHANGED sideVars

\* mutant: the timeout is a deadline: the generator ends and removes the queue
StreamTimeoutEnds ==
    /\ consumer.st = "waiting"
    /\ streams[jid].q = <<>>
    /\ consumer' = EndedConsumer
    /\ streams' = delete_stream(streams, jid)
    /\ delivered' = <<>>
    /\ UNCHANGED <<opened, endings>>
    /\ UNCHANGED runVars
    /\ UNCHANGED wstreams
    /\ UNCHANGED sideVars

\* mutant: a wait that times out ends the generator, which removes the queue
StreamTimeoutDeadline ==
    /\ consumer.st = "waiting"
    /\ streams[jid].q = <<>>
    /\ consumer' = EndedConsumer
    /\ streams' = delete_stream(streams, jid)
    /\ delivered' = <<>>
    /\ endings' = Append(endings, "timed_out")
    /\ UNCHANGED opened
    /\ UNCHANGED runVars
    /\ UNCHANGED wstreams
    /\ UNCHANGED sideVars

\* lines 65-67: no event within the timeout: a keep-alive comment is yielded
StreamTimeout ==
    /\ consumer.st = "waiting"
    /\ streams[jid].q = <<>>
    /\ consumer' = [consumer EXCEPT !.st = "yielded", !.cur = KeepAlive]
    /\ UNCHANGED <<streams, delivered, opened, endings>>
    /\ UNCHANGED runVars
    /\ UNCHANGED wstreams
    /\ UNCHANGED sideVars

\* lines 61-63, 72-76: the generator is resumed after a yield: after a
\* terminal event it breaks, the finally block removes the queue and the
\* generator ends; otherwise it waits again
StreamResume ==
    /\ consumer.st = "yielded"
    /\ IF consumer.cur.type \in TerminalTypes
       THEN /\ streams' = delete_stream(streams, jid)
            /\ consumer' = EndedConsumer
            /\ delivered' = <<>>
            /\ endings' = Append(endings, "after_terminal")
       ELSE /\ consumer' = [consumer EXCEPT !.st = "waiting"]
            /\ UNCHANGED <<streams, endings, delivered>>
    /\ UNCHANGED opened
    /\ UNCHANGED runVars
    /\ UNCHANGED wstreams
    /\ UNCHANGED sideVars

\* mutant: the disconnect also cancels the background run
StreamCloseCancelsRun ==
    /\ ConsumerLive
    /\ streams' = delete_stream(streams, jid)
    /\ consumer' = EndedConsumer
    /\ delivered' = <<>>
    /\ endings' = Append(endings, "disconnected")
    /\ pc' = "raised"
    /\ UNCHANGED opened
    /\ UNCHANGED <<hasJob, docExists, job, docStatus, pages, run, page_count,
                   batch_start, page_results, task, hist, published, raised,
                   window, batches, counted, doc_pages>>
    /\ UNCHANGED wstreams
    /\ UNCHANGED sideVars

\* lines 72-76: the client disconnects: the generator is closed where it is
\* suspended (GeneratorExit at the yield, CancelledError at the await; neither
\* is an Exception), and the finally block removes the queue
StreamClose ==
    /\ ConsumerLive
    /\ streams' = delete_stream(streams, jid)
    /\ consumer' = EndedConsumer
    /\ delivered' = <<>>
    /\ endings' = Append(endings,
                      IF consumer.st = "yielded" /\ consumer.cur.type \in TerminalTypes
                      THEN "after_terminal"
                      ELSE IF consumer.st = "failed" THEN "after_error"
                      ELSE "disconnected")
    /\ UNCHANGED opened
    /\ UNCHANGED runVars
    /\ UNCHANGED wstreams
    /\ UNCHANGED sideVars

NextStream ==
    \/ Next
    \/ StreamOpen
    \/ StreamGet
    \/ StreamTimeout
    \/ StreamResume
    \/ StreamClose

\* one invocation of run_beautify_job with clients attaching and leaving
SpecStream == Init /\ [][NextStream]_vars

\* ------------------------------------------------------------ the manager alone
\* EventStreamManager with any publisher: publish_event is called with events
\* of any type, in any order

\* lines 55-58, 69-71: an exception other than the timeout inside the loop, at
\* the await of line 55 or, with the event taken from the queue, at line 58;
\* the handler yields the synthesized error event
StreamError ==
    /\ consumer.st = "waiting"
    /\ \E taken \in BOOLEAN :
         /\ taken => streams[jid].q # <<>>
         /\ streams' = IF taken THEN [streams EXCEPT ![jid].q = Tail(@)] ELSE streams
    /\ consumer' = [consumer EXCEPT !.st = "failed", !.cur = SynthesizedError]
    /\ UNCHANGED <<delivered, opened, endings>>
    /\ UNCHANGED runVars
    /\ UNCHANGED wstreams
    /\ UNCHANGED sideVars

\* mutant: after the synthesized error event the loop goes on
StreamErrorEndContinues ==
    /\ consumer.st = "failed"
    /\ consumer' = [consumer EXCEPT !.st = "waiting"]
    /\ UNCHANGED <<streams, delivered, opened, endings>>
    /\ UNCHANGED runVars
    /\ UNCHANGED wstreams
    /\ UNCHANGED sideVars

\* lines 71-76: the generator is resumed after the yield of the handler: the
\* finally block removes the queue and the generator ends
StreamErrorEnd ==
    /\ consumer.st = "failed"
    /\ streams' = delete_stream(streams, jid)
    /\ consumer' = EndedConsumer
    /\ delivered' = <<>>
    /\ endings' = Append(endings, "after_error")
    /\ UNCHANGED opened
    /\ UNCHANGED runVars
    /\ UNCHANGED wstreams
    /\ UNCHANGED sideVars

EventTypes == {"progress", "complete", "error"}

\* lines 25-37: publish_event called by any publisher of the process
PublishAny ==
    /\ Len(published) < MaxEvents
    /\ \E type \in EventTypes : Publish(Event(type, 0, 0, 0))
    /\ UNCHANGED <<hasJob, docExists, job, docStatus, pages, pc, run, page_count,
                   batch_start, page_results, task, hist, raised, window, batches,
                   counted, doc_pages>>
    /\ UNCHANGED streamVars
    /\ UNCHANGED sideVars

\* no run is scheduled in the process
InitManager ==
    /\ hasJob = FALSE
    /\ docExists = FALSE
    /\ job = NoJob
    /\ docStatus = "none"
    /\ pages = <<>>
    /\ streams = [j \in JobIds |-> NoStream]
    /\ pc = "idle"
    /\ run = 1
    /\ page_count = 0
    /\ batch_start = 0
    /\ page_results = [p \in PageNos |-> NoResult]
    /\ task = [p \in PageNos |-> NoTask]
    /\ hist = [p \in PageNos |-> NoHist]
    /\ published = <<>>
    /\ raised = 0
    /\ window = CONCURRENT_PAGES
    /\ batches = <<>>
    /\ consumer = NoConsumer
    /\ delivered = <<>>
    /\ opened = 0
    /\ endings = <<>>
    /\ counted = "none"
    /\ doc_pages = {}
    /\ worker = FALSE
    /\ wstreams = [j \in JobIds |-> NoStream]
    /\ other = NoOther
    /\ visual = NoVisual
    /\ job_id = IF hasJob THEN jid ELSE 0
    /\ readers = [c \in ReaderIds |-> NoReader]
    /\ orphan = <<>>
    /\ request = NoRequest

NextManager ==
    \/ PublishAny
    \/ StreamOpen
    \/ StreamGet
    \/ StreamTimeout
    \/ StreamResume
    \/ StreamClose
    \/ StreamError
    \/ StreamErrorEnd

SpecManager == InitManager /\ [][NextManager]_vars

\* ------------------------------------------------------------ beautify_document_streaming
\* VisualBeautifier.beautify_document_streaming (visual_beautifier.py lines
\* 393-445), an async generator: visual.pc names the yield it is suspended at,
\* visual.out is what it has yielded.  A key an event does not carry is 0 / FALSE.
VisualEvent(type, page, total, success, successful) ==
    [type |-> type, page |-> page, total |-> total, success |-> success,
     successful |-> successful]

\* ": ping\n\n"
VisualPingComment == VisualEvent("ping", 0, 0, FALSE, 0)

\* everything but the generator
notVisual == <<runVars, streams, wstreams, streamVars, worker, other, job_id,
               readers, orphan, request>>

\* mutant: every processed page is counted
CountSuccessfulAll(successful, success) == successful + 1

\* lines 431-432: if analysis.success: successful += 1
CountSuccessful(successful, success) == IF success THEN successful + 1 ELSE successful

\* lines 397-401: the generator is started and yields the start event
VisualStart ==
    /\ visual.pc = "none"
    /\ \E n \in 0..MaxPages :
         visual' = [visual EXCEPT !.pc = "start", !.total = n,
                                  !.out = <<VisualEvent("start", 0, n, FALSE, 0)>>]
    /\ UNCHANGED notVisual

\* lines 404, 423, 436: the comment that follows each event but the last
VisualPing ==
    /\ visual.pc \in {"start", "progress", "page_done"}
    /\ visual' = [visual EXCEPT
                    !.pc = CASE visual.pc = "start" -> "ping_start"
                             [] visual.pc = "progress" -> "ping_progress"
                             [] OTHER -> "ping_page_done",
                    !.out = Append(@, VisualPingComment)]
    /\ UNCHANGED notVisual

\* lines 409-422: the next page of the loop: its snapshot is looked up (it may
\* be missing) and the progress event is yielded before the page is processed
VisualProgress ==
    /\ visual.pc \in {"ping_start", "ping_page_done"}
    /\ visual.page < visual.total
    /\ \E found \in BOOLEAN :
         visual' = [visual EXCEPT
                      !.pc = "progress", !.page = @ + 1, !.snap = found,
                      !.out = Append(@, VisualEvent("progress", visual.page + 1,
                                                    visual.total, FALSE, 0))]
    /\ UNCHANGED notVisual

\* lines 425-435: the page is analysed (the analysis succeeds, falls back, or
\* raises; a page without snapshot fails without analysis), counted, and the
\* page_done event is yielded
VisualPageDone ==
    /\ visual.pc = "ping_progress"
    /\ \E outcome \in {"success", "fallback", "raise"} :
         IF visual.snap /\ outcome = "raise"
         THEN visual' = [visual EXCEPT !.pc = "raised"]
         ELSE LET success == visual.snap /\ outcome = "success" IN
              visual' = [visual EXCEPT
                           !.pc = "page_done",
                           !.successful = CountSuccessful(@, success),
                           !.out = Append(@, VisualEvent("page_done", visual.page,
                                                         visual.total, success, 0))]
    /\ UNCHANGED notVisual

\* lines 438-445: after the last page the HTML document is written (this may
\* raise) and the complete event is yielded
VisualComplete ==
    /\ visual.pc \in {"ping_start", "ping_page_done"}
    /\ visual.page >= visual.total
    /\ \E written \in BOOLEAN :
         IF written
         THEN visual' = [visual EXCEPT
                           !.pc = "complete",
                           !.out = Append(@, VisualEvent("complete", 0, visual.total,
                                                         FALSE, visual.successful))]
         ELSE visual' = [visual EXCEPT !.pc = "raised"]
    /\ UNCHANGED notVisual

\* line 445: resumed after the complete event the generator is exhausted
VisualEnd ==
    /\ visual.pc = "complete"
    /\ visual' = [visual EXCEPT !.pc = "done"]
    /\ UNCHANGED notVisual

\* the client disconnects: the generator is closed at the yield it is suspended at
VisualClose ==
    /\ visual.pc \in {"start", "ping_start", "progress", "ping_progress", "page_done",
                      "ping_page_done", "complete"}
    /\ visual' = [visual EXCEPT !.pc = "closed"]
    /\ UNCHANGED notVisual

NextVisual ==
    \/ VisualStart
    \/ VisualPing
    \/ VisualProgress
    \/ VisualPageDone
    \/ VisualComplete
    \/ VisualEnd
    \/ VisualClose

SpecVisual == InitManager /\ [][NextVisual]_vars

\* ------------------------------------------------------------ the batch loop alone
\* lines 108-110 for any page count and any window size
InitBatches ==
    /\ hasJob = FALSE
    /\ docExists = TRUE
    /\ job = NoJob
    /\ docStatus = "processing"
    /\ pages = <<>>
    /\ streams = [j \in JobIds |-> NoStream]
    /\ pc = "batching"
    /\ run = 1
    /\ page_count \in 1..MaxBatchPages
    /\ batch_start = 1
    /\ page_results = [p \in PageNos |-> NoResult]
    /\ task = [p \in PageNos |-> NoTask]
    /\ hist = [p \in PageNos |-> NoHist]
    /\ published = <<>>
    /\ raised = 0
    /\ window \in 1..MaxWindow
    /\ batches = <<>>
    /\ consumer = NoConsumer
    /\ delivered = <<>>
    /\ opened = 0
    /\ endings = <<>>
    /\ counted = "none"
    /\ doc_pages = {}
    /\ worker = FALSE
    /\ wstreams = [j \in JobIds |-> NoStream]
    /\ other = NoOther
    /\ visual = NoVisual
    /\ job_id = IF hasJob THEN jid ELSE 0
    /\ readers = [c \in ReaderIds |-> NoReader]
    /\ orphan = <<>>
    /\ request = NoRequest

\* one iteration of the loop header: the batch is formed, the start advances
FormBatch ==
    /\ pc = "batching"
    /\ batch_start <= page_count
    /\ batches' = Append(batches, BatchPagesFor(batch_start, page_count, window))
    /\ batch_start' = NextBatchStart(batch_start, window)
    /\ UNCHANGED <<hasJob, docExists, job, docStatus, pages, streams, wstreams, pc, run, page_count,
                   page_results, task, hist, published, raised, window>>
    /\ UNCHANGED streamVars
    /\ UNCHANGED <<counted, doc_pages>>
    /\ UNCHANGED sideVars

SpecBatches == InitBatches /\ [][FormBatch]_vars

NextRedelivery ==
    \/ Next
    \/ Redeliver

\* the invocation and its later redeliveries
SpecRedelivery == Init /\ [][NextRedelivery]_vars

\* ------------------------------------------------------------ a later run
RECURSIVE RowsOfOtherRun(_)
\* the page rows an earlier completed run over k pages left
RowsOfOtherRun(k) ==
    IF k = 0 THEN <<>>
    ELSE Append(RowsOfOtherRun(k - 1),
                [page_number |-> k, beautified_text |-> TextOfOtherRun(k)])

\* the job of a new request on a document that earlier runs have processed
InitRerun ==
    /\ hasJob \in BOOLEAN
    /\ docExists \in BOOLEAN
    /\ job = IF hasJob THEN QueuedJob ELSE NoJob
    /\ docStatus = IF docExists THEN "processing" ELSE "none"
    /\ pages \in {RowsOfOtherRun(k) : k \in 0..(IF docExists THEN MaxPages ELSE 0)}
    /\ streams = [j \in JobIds |-> NoStream]
    /\ pc = "scheduled"
    /\ run = 1
    /\ page_count = 0
    /\ batch_start = 0
    /\ page_results = [p \in PageNos |-> NoResult]
    /\ task = [p \in PageNos |-> NoTask]
    /\ hist = [p \in PageNos |-> NoHist]
    /\ published = <<>>
    /\ raised = 0
    /\ window = CONCURRENT_PAGES
    /\ batches = <<>>
    /\ consumer = NoConsumer
    /\ delivered = <<>>
    /\ opened = 0
    /\ endings = <<>>
    /\ counted = "none"
    /\ doc_pages = {}
    /\ worker = FALSE
    /\ wstreams = [j \in JobIds |-> NoStream]
    /\ other = NoOther
    /\ visual = NoVisual
    /\ job_id = IF hasJob THEN jid ELSE 0
    /\ readers = [c \in ReaderIds |-> NoReader]
    /\ orphan = <<>>
    /\ request = NoRequest

\* one run on a document that may hold the page rows of earlier runs
SpecRerun == InitRerun /\ [][Next]_vars

\* ------------------------------------------------------------ two jobs, one document
\* The run of a second job of the same document, by what it does to the rows
\* the two runs share: the Page rows and the Document row.  Its Job row and its
\* events belong to the other job id.

\* lines 56-60: the second run loads the document with its pages
OtherLoad ==
    /\ docExists
    /\ other.pc = "none"
    /\ other' = [pc |-> "loaded", loaded |-> PageNumbers(pages), n |-> 0]
    /\ UNCHANGED <<runVars, streams, wstreams, streamVars, worker, visual>>
    /\ UNCHANGED <<job_id, readers, orphan, request>>

\* lines 143-163 and 182-200: the second run, having processed its n pages,
\* commits its page rows and the document status; when the commit raises its
\* handler marks the document as failed, in a commit that may raise too
OtherPersist ==
    /\ other.pc = "loaded"
    /\ \E n \in 0..MaxPages, ok \in BOOLEAN, handled \in BOOLEAN :
         LET results == [p \in PageNos |-> TextOfOtherRun(p)] IN
         IF ok /\ PageNumbersFree(pages, other.loaded, n)
         THEN /\ pages' = PersistPages(pages, other.loaded, results, 1, n)
              /\ docStatus' = "beautified"
              /\ other' = [other EXCEPT !.pc = "persisted", !.n = n]
         ELSE /\ docStatus' = IF handled THEN "error" ELSE docStatus
              /\ other' = [other EXCEPT
                             !.pc = IF PageNumbersFree(pages, other.loaded, n)
                                    THEN "failed" ELSE "refused",
                             !.n = n]
              /\ UNCHANGED pages
    /\ UNCHANGED <<hasJob, docExists, job, pc, run, page_count, batch_start, page_results,
                   task, hist, published, raised, window, batches, counted, doc_pages>>
    /\ UNCHANGED <<streams, wstreams, streamVars, worker, visual>>
    /\ UNCHANGED <<job_id, readers, orphan, request>>

NextOverlap ==
    \/ Next
    \/ OtherLoad
    \/ OtherPersist

\* two runs over one document, started by two requests, in any interleaving
SpecOverlap == Init /\ [][NextOverlap]_vars

\* ------------------------------------------------------------ dispatch
\* documents.py lines 119-143: the job row is created, then the run is either
\* enqueued to RQ (REDIS_URL set and rq importable: a worker process runs
\* it) or scheduled on the event loop of the API process
InitDispatch ==
    /\ hasJob = TRUE
    /\ docExists \in BOOLEAN
    /\ job = QueuedJob
    /\ docStatus = IF docExists THEN "processing" ELSE "none"
    /\ pages = <<>>
    /\ streams = [j \in JobIds |-> NoStream]
    /\ pc = "scheduled"
    /\ run = 1
    /\ page_count = 0
    /\ batch_start = 0
    /\ page_results = [p \in PageNos |-> NoResult]
    /\ task = [p \in PageNos |-> NoTask]
    /\ hist = [p \in PageNos |-> NoHist]
    /\ published = <<>>
    /\ raised = 0
    /\ window = CONCURRENT_PAGES
    /\ batches = <<>>
    /\ consumer = NoConsumer
    /\ delivered = <<>>
    /\ opened = 0
    /\ endings = <<>>
    /\ counted = "none"
    /\ doc_pages = {}
    /\ worker \in BOOLEAN
    /\ wstreams = [j \in JobIds |-> NoStream]
    /\ other = NoOther
    /\ visual = NoVisual
    /\ job_id = IF hasJob THEN jid ELSE 0
    /\ readers = [c \in ReaderIds |-> NoReader]
    /\ orphan = <<>>
    /\ request = NoRequest

\* a run started by either dispatch, with clients of the API process attaching
SpecDispatch == InitDispatch /\ [][NextStream]_vars

\* ------------------------------------------------------------ claims

\* C1: every run for an existing job ends with the job COMPLETED or ERROR; no
\* path, a raising commit included, leaves the persisted job RUNNING.
C1_JobNeverLeftRunning ==
    (RunOver /\ hasJob) => job.status # "running"

\* C2: within one run the persisted status only moves forward,
\* queued -> running -> {completed, error}, and a terminal status is kept.
Forward(a, b) ==
    \/ a = b
    \/ a = "queued" /\ b = "running"
    \/ a = "running" /\ b \in Terminal

C3_TerminalJobUntouched ==
    [][job.status \in Terminal => job' = job]_vars

\* C4: while the persisted status is RUNNING, each progress write is greater
\* than or equal to the one before it.
C4_ProgressNonDecreasing ==
    [][(job.status = "running" /\ job'.status = "running")
          => job'.progress >= job.progress]_vars

C4_Witness ==
    /\ pc = "gather"
    /\ batch_start > 1
    /\ job.status = "running"
    /\ job.progress = CurrentProgress(batch_start, page_count)

\* C5: a run with an existing job publishes exactly one terminal event, and
\* it is the last event of the run.
TerminalEvents(evs) == {i \in 1..Len(evs) : evs[i].type \in TerminalTypes}

C5_OneTerminalEventLast ==
    (RunOver /\ hasJob) =>
        /\ Len(published) > 0
        /\ TerminalEvents(published) = {Len(published)}

\* C6: with N >= 1 pages and no failing commit the run ends COMPLETED, whatever
\* pages failed all their attempts; a failed page's row holds an error
\* marker, every other page's row holds the text its transcriber returned.
RowsOf(i) == {k \in 1..Len(pages) : pages[k].page_number = i}

C6_PageFailureIsNotJobFailure ==
    (pc = "returned" /\ hasJob /\ docExists /\ raised = 0 /\ page_count >= 1) =>
        /\ job.status = "completed"
        /\ \A i \in 1..page_count :
             /\ RowsOf(i) # {}
             /\ \A k \in RowsOf(i) :
                  IF hist[i].firstOk = 0
                  THEN StartsWithError(pages[k].beautified_text)
                  ELSE pages[k].beautified_text = TranscribedText(i, hist[i].firstOk)

C6_Witness ==
    /\ pc = "returned"
    /\ hasJob
    /\ job.status = "completed"
    /\ page_count >= 2
    /\ \E i, j \in 1..page_count :
         /\ hist[i].firstOk = 0 /\ hist[i].calls = MAX_RETRIES
         /\ hist[j].firstOk > 0

\* C7: a page whose every attempt fails returns an error marker after exactly
\* MAX_RETRIES transcriber calls.
C7_AllAttemptsFail ==
    \A p \in PageNos :
        (task[p].st = "done" /\ hist[p].firstOk = 0) =>
            /\ StartsWithError(task[p].ret)
            /\ hist[p].calls = MAX_RETRIES

C7_Witness ==
    \E p \in PageNos :
        /\ task[p].st = "done"
        /\ hist[p].firstOk = 0
        /\ task[p].ret.kind = "failed_after_retries"

\* C8: when attempt k is the first that succeeds, the page returns that
\* attempt's text after exactly k transcriber calls, none after the success.
C8_FirstSuccessReturned ==
    \A p \in PageNos :
        hist[p].firstOk >= 1 =>
            /\ hist[p].calls = hist[p].firstOk
            /\ hist[p].returned
            /\ task[p].st = "done" => task[p].ret = TranscribedText(p, hist[p].firstOk)

C8_Witness ==
    \E p \in PageNos :
        /\ task[p].st = "done"
        /\ hist[p].firstOk = MAX_RETRIES
        /\ hist[p].calls = MAX_RETRIES
        /\ task[p].ret = TranscribedText(p, MAX_RETRIES)

\* C9: never more than CONCURRENT_PAGES transcriber calls are in flight.
C9_InFlightBounded ==
    Cardinality(InFlight) <= CONCURRENT_PAGES

C9_Witness ==
    /\ Cardinality(InFlight) = CONCURRENT_PAGES
    /\ \E p \in InFlight : task[p].attempt > 1

\* C10: no transcriber call for a page of a later window starts before every
\* page of every earlier window has returned; windows run in ascending order.
WindowOf(p) == (p - 1) \div CONCURRENT_PAGES

C10_WindowBarrier ==
    \A p, q \in PageNos :
        (hist[p].calls > 0 /\ WindowOf(q) < WindowOf(p)) => hist[q].returned

C10_Witness ==
    \E p \in PageNos :
        /\ WindowOf(p) > 0
        /\ task[p].st = "inflight"
        /\ \A q \in PageNos : WindowOf(q) < WindowOf(p) => hist[q].calls > 0

\* C11: for every N >= 1 and W >= 1 the batches are non-empty intervals, the
\* first starts at page 1, each starts right after the one before it (so they
\* are disjoint and ascending), each has at most W pages, every batch but the
\* last has exactly W, and when the loop ends they cover exactly 1..N.
MinOf(S) == CHOOSE x \in S : \A y \in S : x <= y
MaxOf(S) == CHOOSE x \in S : \A y \in S : x >= y

C11_BatchesPartitionPages ==
    pc = "batching" =>
        /\ \A k \in 1..Len(batches) :
             /\ batches[k] # {}
             /\ batches[k] = MinOf(batches[k]) .. MaxOf(batches[k])
             /\ Cardinality(batches[k]) <= window
             /\ k = 1 => MinOf(batches[k]) = 1
             /\ k > 1 => MinOf(batches[k]) = MaxOf(batches[k - 1]) + 1
             /\ (k < Len(batches) \/ batch_start <= page_count)
                    => Cardinality(batches[k]) = window
        /\ \A j, k \in 1..Len(batches) : j # k => batches[j] \cap batches[k] = {}
        /\ batch_start > page_count =>
             UNION {batches[k] : k \in 1..Len(batches)} = 1..page_count

C11_Witness ==
    /\ pc = "batching"
    /\ page_count = 5
    /\ window = 2
    /\ batches = <<{1, 2}, {3, 4}, {5}>>

\* C12: a run with a job that has processed all the windows of its N >= 1
\* pages has published exactly ceil(N/W) progress events, one per window,
\* each after the start event and before any terminal event.
AllWindowsDone ==
    /\ pc \in {"batch", "persisted", "except", "returned", "raised"}
    /\ page_count >= 1
    /\ batch_start > page_count

EventsOfType(evs, type) == {i \in 1..Len(evs) : evs[i].type = type}

CeilDiv(n, w) == (n + w - 1) \div w

C12_OneProgressEventPerWindow ==
    (hasJob /\ AllWindowsDone) =>
        /\ Cardinality(EventsOfType(published, "progress")) = CeilDiv(page_count, window)
        /\ {published[i].page : i \in EventsOfType(published, "progress")}
             = {MinOf(batches[k]) : k \in 1..Len(batches)}
        /\ Len(batches) = CeilDiv(page_count, window)
        /\ \A i \in EventsOfType(published, "progress") :
             /\ \E j \in 1..(i - 1) : published[j].type = "start"
             /\ \A j \in 1..(i - 1) : published[j].type \notin TerminalTypes

C12_Witness ==
    /\ hasJob
    /\ pc = "returned"
    /\ page_count = 3
    /\ Cardinality(EventsOfType(published, "progress")) = 2
    /\ published[Len(published)].type = "complete"

\* C13: a run over N pages publishes exactly one page_done event per page,
\* after the page's processing and before the terminal event.
C13_OnePageDonePerPage ==
    (hasJob /\ AllWindowsDone /\ pc = "returned" /\ raised = 0) =>
        /\ Cardinality(EventsOfType(published, "page_done")) = page_count
        /\ \A p \in 1..page_count :
             \E i \in EventsOfType(published, "page_done") : published[i].page = p

\* C14: when a page of window k+1 is being processed, every page of the
\* earlier windows has its result committed as a page row.
C14_EarlierWindowsPersisted ==
    (pc = "gather" /\ batch_start > 1) =>
        \A q \in 1..(batch_start - 1) :
            /\ RowsOf(q) # {}
            /\ \A k \in RowsOf(q) : pages[k].beautified_text = page_results[q]

\* C15: when the document does not exist the run ends with the job in ERROR,
\* exactly one error event, no page_done event and no transcriber call.
C15_DocumentNotFound ==
    (RunOver /\ hasJob /\ ~docExists) =>
        /\ job.status = "error"
        /\ Cardinality(EventsOfType(published, "error")) = 1
        /\ EventsOfType(published, "page_done") = {}
        /\ \A p \in PageNos : hist[p].calls = 0

\* C16: a document with zero pages ends the run with the job in ERROR, an
\* error event published and no page processed.
C16_ZeroPagesIsFatal ==
    (pc = "returned" /\ hasJob /\ docExists /\ page_count = 0) =>
        /\ job.status = "error"
        /\ EventsOfType(published, "error") # {}
        /\ \A p \in PageNos : hist[p].calls = 0

\* ------------------------------------------------------------ C17
EndedAfterTerminal == \E i \in 1..Len(endings) : endings[i] = "after_terminal"

YieldedTerminal == consumer.st = "yielded" /\ consumer.cur.type \in TerminalTypes

\* C17: a generator that has yielded a complete or error event does nothing
\* more than end and remove the job's queue from the manager; a stream_events
\* call made after that gets a new empty queue and yields no event, so none of
\* the events of the ended stream is replayed.
C17_TerminalEndsStreamNoReplay ==
    [][ /\ (YieldedTerminal /\ consumer' # consumer)
            => (consumer'.st = "closed" /\ ~streams'[jid].exists)
        /\ (EndedAfterTerminal /\ opened' = opened + 1)
            => streams'[jid] = [exists |-> TRUE, q |-> <<>>]
        /\ (EndedAfterTerminal /\ consumer'.st \in {"waiting", "yielded"})
            => delivered' = <<>> ]_vars

\* a second stream_events call, made after the first one ended on the terminal
\* event it yielded, has waited and yielded only a keep-alive
C17_Witness ==
    /\ opened = 2
    /\ endings = <<"after_terminal">>
    /\ consumer.st = "yielded"
    /\ consumer.cur = KeepAlive
    /\ delivered = <<>>
    /\ RunOver

\* ------------------------------------------------------------ C18
\* C18: the job's queue leaves the manager only in a step taken by a generator
\* that has yielded a terminal event.
C18_QueueRemovedOnlyAfterTerminal ==
    [][ (streams[jid].exists /\ ~streams'[jid].exists) => YieldedTerminal ]_vars

\* ------------------------------------------------------------ C19
\* C19: publish_event creates the job's queue when there is none and appends
\* the event to it: until a consumer attaches the queue holds every published
\* event in publish order, and the first consumer is handed the published
\* events from the first one on, in that order, the rest waiting in the queue.
C19_EarlyEventsRetainedInOrder ==
    /\ published # <<>> /\ opened = 0
        => streams[jid] = [exists |-> TRUE, q |-> published]
    /\ opened = 1 /\ ConsumerLive
        => delivered \o streams[jid].q = published

\* the first consumer attached to a queue that already held events, and has
\* been handed every event of the finished run
C19_Witness ==
    /\ opened = 1
    /\ ConsumerLive
    /\ consumer.backlog
    /\ RunOver
    /\ Len(published) >= 3
    /\ delivered = published

\* ------------------------------------------------------------ C20
\* C20: a step of the stream consumer, its disconnect included, changes nothing
\* of the run (its position, the job and page rows, the published events), and
\* in whatever state the consumer is, a run that is not over can take its next
\* step.
C20_DisconnectLeavesRunAlone ==
    /\ [][ (consumer' # consumer) => UNCHANGED runVars ]_vars
    /\ [](~RunOver => ENABLED Next)

\* the consumer disconnected in the middle of the run (the queue made again by
\* the later publishes holds some of the events, not all), and the run went on
\* to complete a document of several windows and save its pages
C20_Witness ==
    /\ endings = <<"disconnected">>
    /\ opened = 1
    /\ streams[jid].exists
    /\ Len(streams[jid].q) \in 1..(Len(published) - 1)
    /\ pc = "returned"
    /\ job.status = "completed"
    /\ page_count = MaxPages
    /\ Len(pages) = MaxPages
    /\ EventsOfType(published, "complete") # {}

\* ------------------------------------------------------------ C24
\* the pages the transcriber was asked for in this run
PagesAsked == {p \in PageNos : hist[p].calls > 0}

\* C24: when the page count cannot be determined the run goes on with
\* page_count = 1 and, when it returns with no commit raising, has processed
\* page 1 and no other page.
C24_CountFailureMeansOnePage ==
    counted = "failed" =>
        /\ page_count = 1
        /\ (pc = "returned" /\ raised = 0) => PagesAsked = {1}

\* ------------------------------------------------------------ C25
\* C25: a persisted job that is COMPLETED or ERROR has finished_at set, and a
\* COMPLETED one has progress 100.
C25_TerminalJobHasFinishedAt ==
    hasJob =>
        /\ job.status \in Terminal => job.finished_at # 0
        /\ job.status = "completed" => job.progress = 100

\* ------------------------------------------------------------ C26
\* the pages whose persisted text is no error marker
SuccessfulPages ==
    {i \in 1..page_count :
        \E k \in RowsOf(i) : ~StartsWithError(pages[k].beautified_text)}

\* C26: the complete event of a run over N pages carries the total N and
\* successful = the number of pages whose final text is no error marker.
C26_CompleteCarriesCounts ==
    \A i \in EventsOfType(published, "complete") :
        /\ published[i].total_pages = page_count
        /\ published[i].successful = Cardinality(SuccessfulPages)

\* ------------------------------------------------------------ C29
\* C29: for a missing document the job is never marked RUNNING and no start
\* event is published: the error event is the only event of the run.
C29_DocumentCheckedBeforeStart ==
    (hasJob /\ ~docExists) =>
        /\ job.status # "running"
        /\ EventsOfType(published, "start") = {}
        /\ pc = "returned" => Len(published) = 1 /\ published[1].type = "error"

\* ------------------------------------------------------------ C22
\* the persist commit of this run has succeeded
PagesSaved == pc = "persisted" \/ (pc \in {"except", "returned", "raised"} /\ docStatus = "beautified")

\* C22: a run on a document that holds the page rows of earlier runs keeps one
\* row per page number; when it has saved its results, every page 1..N has
\* exactly one row, holding this run's text, and the rows are those loaded and
\* those of the pages 1..N that had none.
C22_PersistIsUpsert ==
    /\ \A i \in PageNos : Cardinality(RowsOf(i)) <= 1
    /\ PagesSaved =>
         /\ PageNumbers(pages) = doc_pages \cup (1..page_count)
         /\ \A i \in 1..page_count :
              \E k \in RowsOf(i) : pages[k].beautified_text = ResultFor(page_results, i)

\* a completed run over three pages on a document that held two rows: the two
\* rows are overwritten and one is added
C22_Witness ==
    /\ pc = "returned"
    /\ hasJob
    /\ job.status = "completed"
    /\ doc_pages = {1, 2}
    /\ page_count = 3
    /\ Len(pages) = 3
    /\ \A k \in 1..3 : pages[k].beautified_text # TextOfOtherRun(pages[k].page_number)

C23_SameEventsEitherDispatch ==
    /\ opened = 0 => streams[jid].q = published
    /\ (opened = 1 /\ consumer.st \in {"waiting", "yielded"})
         => delivered \o streams[jid].q = published

\* ------------------------------------------------------------ C21
\* a step of the generator that is neither a disconnect nor an internal error
GeneratorStep ==
    consumer' # consumer /\ endings' = endings /\ consumer'.st # "failed"

C28_InternalErrorEndsStream ==
    [][ /\ (consumer.st # "failed" /\ consumer'.st = "failed")
            => consumer'.cur = SynthesizedError
        /\ (consumer.st = "failed" /\ consumer' # consumer)
            => /\ consumer' = EndedConsumer
               /\ ~streams'[jid].exists
               /\ opened' = opened ]_vars

\* a generator ended after an internal error, with events published to the
\* job; the queue is gone
C28_Witness ==
    /\ consumer = EndedConsumer
    /\ endings = <<"after_error">>
    /\ ~streams[jid].exists
    /\ Len(published) >= 2

\* ------------------------------------------------------------ C27
\* the data events among what the generator has yielded
VisualData == SelectSeq(visual.out, LAMBDA e : e.type # "ping")

\* C27: the data events yielded so far are the first events of: start with
\* total_pages = N; for p = 1..N a progress event for p, then a page_done
\* event for p; a complete event whose successful is the number of page_done
\* events with success.  A generator that has run to its end has yielded them all.
C27_VisualEventOrder ==
    LET d == VisualData
        n == visual.total
    IN  /\ Len(d) <= 2 * n + 2
        /\ \A i \in 1..Len(d) :
             IF i = 1 THEN d[i].type = "start" /\ d[i].total = n
             ELSE IF i = 2 * n + 2
             THEN /\ d[i].type = "complete"
                  /\ d[i].total = n
                  /\ d[i].successful =
                       Cardinality({j \in 1..Len(d) : d[j].type = "page_done" /\ d[j].success})
             ELSE IF i % 2 = 0
             THEN d[i].type = "progress" /\ d[i].page = i \div 2 /\ d[i].total = n
             ELSE d[i].type = "page_done" /\ d[i].page = i \div 2 /\ d[i].total = n
        /\ visual.pc \in {"complete", "done"} => Len(d) = 2 * n + 2
        /\ visual.pc = "none" <=> visual.out = <<>>

\* a generator that ran to its end over MaxPages pages of which some, not all,
\* were analysed with success
C27_Witness ==
    /\ visual.pc = "done"
    /\ visual.total = MaxPages
    /\ visual.successful \in 1..(MaxPages - 1)
    /\ Len(VisualData) = 2 * MaxPages + 2

\* ------------------------------------------------------------ runs without a job record
\* run_beautify_job(document_id, job_id=None), or with the id of a job that
\* has no record: session.get(Job, job_id) returns None (line 62)
InitNoRecord ==
    /\ hasJob = FALSE
    /\ docExists \in BOOLEAN
    /\ job = NoJob
    /\ docStatus = IF docExists THEN "processing" ELSE "none"
    /\ pages = <<>>
    /\ streams = [j \in JobIds |-> NoStream]
    /\ pc = "scheduled"
    /\ run = 1
    /\ page_count = 0
    /\ batch_start = 0
    /\ page_results = [p \in PageNos |-> NoResult]
    /\ task = [p \in PageNos |-> NoTask]
    /\ hist = [p \in PageNos |-> NoHist]
    /\ published = <<>>
    /\ raised = 0
    /\ window = CONCURRENT_PAGES
    /\ batches = <<>>
    /\ consumer = NoConsumer
    /\ delivered = <<>>
    /\ opened = 0
    /\ endings = <<>>
    /\ counted = "none"
    /\ doc_pages = {}
    /\ worker = FALSE
    /\ wstreams = [j \in JobIds |-> NoStream]
    /\ other = NoOther
    /\ visual = NoVisual
    /\ job_id \in {0} \cup JobIds
    /\ readers = [c \in ReaderIds |-> NoReader]
    /\ orphan = <<>>
    /\ request = NoRequest

SpecNoRecord == InitNoRecord /\ [][Next]_vars

\* ------------------------------------------------------------ C40
\* C40: a run called with job_id None, or with a job_id that has no record,
\* publishes no event and creates or modifies no job record, while the
\* document is processed: a run that returns leaves the document beautified
\* with its pages persisted, or in error.
C40_NoRecordNoEvents ==
    ~hasJob =>
        /\ published = <<>>
        /\ streams[jid] = NoStream
        /\ job = NoJob
        /\ (pc = "returned" /\ docExists) =>
              \/ docStatus = "error"
              \/ /\ docStatus = "beautified"
                 /\ \A i \in 1..page_count : i \in PageNumbers(pages)

\* ------------------------------------------------------------ C31
\* C31: an event is published only after the state it reports is committed:
\* at the step that enqueues a progress event with value x the persisted job
\* progress is x; at the complete event the persisted job is completed with
\* progress 100, the document is beautified and every page 1..N has a row; at
\* an error event the persisted job status is error.
C31_EventsReportCommittedState ==
    [][Len(published') = Len(published) + 1 =>
         LET ev == published'[Len(published')] IN
         /\ ev.type = "progress" => job'.progress = ev.progress
         /\ ev.type = "complete" =>
               /\ job'.status = "completed"
               /\ job'.progress = 100
               /\ docStatus' = "beautified"
               /\ \A i \in 1..page_count : i \in PageNumbers(pages')
         /\ ev.type = "error" => job'.status = "error"]_vars

\* ------------------------------------------------------------ C32
\* the first page of the window of page p
WindowStart(p) == 1 + WindowOf(p) * CONCURRENT_PAGES

\* C32: when a transcriber call for a page of a window starts, the progress
\* of that window is the persisted job progress and the window's progress
\* event is the last event published.
C32_ProgressBeforeTranscriberCalls ==
    [][\A p \in PageNos :
         hist'[p].calls > hist[p].calls =>
            /\ hasJob =>
                  /\ job.status = "running"
                  /\ job.progress = CurrentProgress(WindowStart(p), page_count)
            /\ job_id \in JobIds =>
                  /\ published # <<>>
                  /\ published[Len(published)] =
                        Event("progress", CurrentProgress(WindowStart(p), page_count),
                              WindowStart(p), page_count)]_vars

\* a transcriber call of the second window has started in a run with a job
C32_Witness ==
    /\ hasJob
    /\ pc = "gather"
    /\ \E p \in PageNos : WindowOf(p) = 1 /\ hist[p].calls > 0
    /\ Cardinality(EventsOfType(published, "progress")) = 2

\* ------------------------------------------------------------ C36
\* C36: whatever order the page tasks of a window complete in, the result
\* stored for page p is what the task of page p returned (the text of page p
\* from that task's last attempt), and the row of page p holds it.
C36_ResultStoredUnderItsPage ==
    /\ \A p \in PageNos :
          page_results[p] # NoResult =>
             /\ page_results[p].page = p
             /\ page_results[p] \in {TranscribedText(p, hist[p].calls),
                                      TranscriberMarker(p, hist[p].calls),
                                      FailedAfterRetries(p, hist[p].calls)}
    /\ PagesSaved =>
          \A k \in 1..Len(pages) :
             /\ pages[k].page_number \in 1..page_count
             /\ pages[k].beautified_text = page_results[pages[k].page_number]
             /\ pages[k].beautified_text.page = pages[k].page_number

\* a saved window whose second page needed fewer attempts than its first
C36_Witness ==
    /\ pc = "returned"
    /\ page_count >= 2
    /\ Len(pages) >= 2
    /\ pages[1].beautified_text = TranscribedText(1, 2)
    /\ pages[2].beautified_text = TranscribedText(2, 1)

\* ------------------------------------------------------------ C37
\* the delays a page task has slept so far, given the attempts it has made
DelaysExpected(n) == [a \in 1..n |-> 15 * a]

\* C37: a page task sleeps only between attempts: after failed attempt a <
\* MAX_RETRIES it sleeps 1.5 * a seconds (delays are in tenths of a second),
\* never before the first attempt and never after the last one: a page that
\* fails every attempt has slept MAX_RETRIES - 1 times, a page that succeeds
\* at the first attempt has not slept.
C37_DelaysOnlyBetweenAttempts ==
    \A p \in PageNos :
        LET h == hist[p]
            slept == IF task[p].st = "sleeping" THEN h.calls
                     ELSE IF h.calls = 0 THEN 0
                     ELSE IF task[p].st = "ready" THEN task[p].attempt - 1
                     ELSE h.calls - 1
        IN /\ h.delays = DelaysExpected(slept)
           /\ Len(h.delays) <= MAX_RETRIES - 1
           /\ (h.returned /\ h.firstOk = 0) => h.delays = DelaysExpected(MAX_RETRIES - 1)
           /\ h.firstOk = 1 => h.delays = <<>>

\* one page has failed every attempt, another succeeded at the first
C37_Witness ==
    \E p, q \in PageNos :
        /\ hist[p].returned /\ hist[p].firstOk = 0 /\ hist[p].calls = MAX_RETRIES
        /\ hist[p].delays = <<15, 30>>
        /\ hist[q].returned /\ hist[q].firstOk = 1 /\ hist[q].delays = <<>>

\* ------------------------------------------------------------ C38
\* C38: the progress persisted and published for the window starting at page
\* s of N pages is 10 + floor(80 * s / N), between 10 and 90: a running job
\* never shows less than the start value 5, and progress 100 is only ever
\* persisted together with status completed.
C38_WindowProgressRange ==
    /\ \A i \in EventsOfType(published, "progress") :
          /\ published[i].page \in 1..published[i].total_pages
          /\ published[i].progress =
                10 + ((80 * published[i].page) \div published[i].total_pages)
          /\ published[i].progress \in 10..90
    /\ (hasJob /\ pc = "gather") =>
          job.progress = 10 + ((80 * batch_start) \div page_count)
    /\ job.status = "running" => job.progress \in {5} \cup 10..90
    /\ job.progress = 100 <=> job.status = "completed"

\* the last window of a three-page document is in progress
C38_Witness ==
    /\ hasJob
    /\ pc = "gather"
    /\ page_count = 3
    /\ job.progress = 90
    /\ \E i \in EventsOfType(published, "progress") : published[i].progress = 36

\* ------------------------------------------------------------ C33
\* the events up to and including the first terminal one
UpToFirstTerminal(evs) ==
    IF TerminalEvents(evs) = {} THEN evs
    ELSE SubSeq(evs, 1, MinOf(TerminalEvents(evs)))

\* C33: for the single consumer attached before the first publish, the data
\* events yielded so far are the first published events, in publish order,
\* each once, the later ones waiting in the queue in publish order; when it
\* yields a terminal event it has yielded exactly the published events up to
\* and including the first terminal one.
C33_SingleConsumerSeesPublishOrder ==
    (opened = 1 /\ consumer.st \in {"waiting", "yielded"} /\ ~consumer.backlog) =>
        /\ Len(delivered) <= Len(published)
        /\ delivered = SubSeq(published, 1, Len(delivered))
        /\ streams[jid].q = SubSeq(published, Len(delivered) + 1, Len(published))
        /\ \A i \in 1..(Len(delivered) - 1) : delivered[i].type \notin TerminalTypes
        /\ YieldedTerminal => delivered = UpToFirstTerminal(published)

\* the consumer, attached before the first publish, yields the terminal event
\* after an earlier event; an event published after the terminal one waits
C33_Witness ==
    /\ opened = 1
    /\ ~consumer.backlog
    /\ YieldedTerminal
    /\ Len(delivered) = 2
    /\ Len(published) = 3
    /\ delivered[1].type = "progress"

EnqueueOutcomes == {"queued", "import_error", "raised"}

\* mutant: an exception of the enqueue block is only logged
DispatchNoFallback(redis, outcome) ==
    IF redis /\ outcome # "import_error"
    THEN [enqueued |-> IF outcome = "queued" THEN 1 ELSE 0, tasks |-> 0]
    ELSE [enqueued |-> 0, tasks |-> 1]

\* lines 124-143: how many run_beautify_job invocations the request hands to
\* the external queue and how many to the event loop of the API process
Dispatch(redis, outcome) ==
    IF redis
    THEN CASE outcome = "queued" -> [enqueued |-> 1, tasks |-> 0]
           [] outcome = "import_error" -> [enqueued |-> 0, tasks |-> 1]
           [] OTHER -> [enqueued |-> 0, tasks |-> 1]
    ELSE [enqueued |-> 0, tasks |-> 1]

\* lines 97-167: the document and its file are looked up (404 when missing),
\* the document is marked processing and committed, the job row is added and
\* committed, the run is dispatched; a commit that raises ends the request
\* with status 500
BeautifyRequest ==
    /\ request.pc = "received"
    /\ pc = "idle"
    /\ \E fileThere \in BOOLEAN, ok1 \in BOOLEAN, ok2 \in BOOLEAN, redis \in BOOLEAN,
          outcome \in EnqueueOutcomes :
         IF ~docExists \/ ~fileThere
         THEN /\ request' = [request EXCEPT !.pc = "rejected"]
              /\ UNCHANGED <<docStatus, job, hasJob, job_id, worker, pc>>
         ELSE IF ~ok1
         THEN /\ request' = [request EXCEPT !.pc = "failed"]
              /\ UNCHANGED <<docStatus, job, hasJob, job_id, worker, pc>>
         ELSE IF ~ok2
         THEN /\ request' = [request EXCEPT !.pc = "failed"]
              /\ docStatus' = "processing"
              /\ UNCHANGED <<job, hasJob, job_id, worker, pc>>
         ELSE /\ docStatus' = "processing"
              /\ job' = QueuedJob
              /\ hasJob' = TRUE
              /\ job_id' = jid
              /\ request' = [pc |-> "accepted", jobs |-> request.jobs + 1,
                             enqueued |-> Dispatch(redis, outcome).enqueued,
                             tasks |-> Dispatch(redis, outcome).tasks,
                             redis |-> redis, outcome |-> outcome]
              /\ worker' = (Dispatch(redis, outcome).enqueued > 0)
              /\ pc' = IF Dispatch(redis, outcome).enqueued + Dispatch(redis, outcome).tasks > 0
                       THEN "scheduled" ELSE "idle"
    /\ UNCHANGED <<docExists, pages, streams, wstreams, run, page_count, batch_start,
                   page_results, task, hist, published, raised, window, batches,
                   counted, doc_pages>>
    /\ UNCHANGED streamVars
    /\ UNCHANGED <<other, visual, readers, orphan>>

\* an uploaded document, or none, no job, and a request that has arrived
InitRequest ==
    /\ hasJob = FALSE
    /\ docExists \in BOOLEAN
    /\ job = NoJob
    /\ docStatus = IF docExists THEN "uploaded" ELSE "none"
    /\ pages = <<>>
    /\ streams = [j \in JobIds |-> NoStream]
    /\ pc = "idle"
    /\ run = 1
    /\ page_count = 0
    /\ batch_start = 0
    /\ page_results = [p \in PageNos |-> NoResult]
    /\ task = [p \in PageNos |-> NoTask]
    /\ hist = [p \in PageNos |-> NoHist]
    /\ published = <<>>
    /\ raised = 0
    /\ window = CONCURRENT_PAGES
    /\ batches = <<>>
    /\ consumer = NoConsumer
    /\ delivered = <<>>
    /\ opened = 0
    /\ endings = <<>>
    /\ counted = "none"
    /\ doc_pages = {}
    /\ worker = FALSE
    /\ wstreams = [j \in JobIds |-> NoStream]
    /\ other = NoOther
    /\ visual = NoVisual
    /\ job_id = 0
    /\ readers = [c \in ReaderIds |-> NoReader]
    /\ orphan = <<>>
    /\ request = [NoRequest EXCEPT !.pc = "received"]

\* the request, then the run it dispatched (the document exists when the run
\* starts)
NextRequest ==
    \/ BeautifyRequest
    \/ RunStart
    \/ CountPages
    \/ BatchBegin
    \/ \E p \in PageNos : TaskCall(p)
    \/ \E p \in PageNos : TaskReply(p)
    \/ \E p \in PageNos : TaskWake(p)
    \/ GatherDone
    \/ Persist
    \/ Complete
    \/ HandleException

SpecRequest == InitRequest /\ [][NextRequest]_vars

\* ------------------------------------------------------------ C39
\* C39: a request that succeeds has created one job record, queued with
\* progress 0 until the run starts it, and has handed one run_beautify_job
\* invocation either to the external queue (REDIS_URL set and the enqueue
\* worked) or to the event loop of the process, never to both or to neither.
C39_OneJobOneRun ==
    request.pc = "accepted" =>
        /\ request.jobs = 1
        /\ hasJob
        /\ job_id = jid
        /\ request.enqueued + request.tasks = 1
        /\ request.enqueued = 1 <=> (request.redis /\ request.outcome = "queued")
        /\ request.tasks = 1 <=> (~request.redis \/ request.outcome # "queued")
        /\ worker <=> request.enqueued = 1
        /\ pc # "idle"
        /\ pc = "scheduled" => job = QueuedJob

\* REDIS_URL is set and the enqueue raised: the run went to the event loop of
\* the process and has completed the job
C39_Witness ==
    /\ request.pc = "accepted"
    /\ request.redis
    /\ request.outcome = "raised"
    /\ request.tasks = 1
    /\ request.enqueued = 0
    /\ pc = "returned"
    /\ job.status = "completed"

\* ------------------------------------------------------------ two generators of one job
\* Two stream_events generators of the same job id in one process.  Line 49
\* binds the local `queue` to the object in the manager at that moment; the
\* finally block of either generator removes the manager's entry, whichever
\* object it holds, and the other generator keeps the object it has.

\* the other generator
OtherReader(c) == CHOOSE d \in ReaderIds : d # c

ReaderLive(c) == readers[c].st \in {"waiting", "yielded"}

\* the content of the queue object the generator holds
ReaderQueue(c) == IF readers[c].own THEN orphan ELSE streams[jid].q

\* lines 46-49: the generator starts; it takes the queue of the manager,
\* creating it when absent
ReaderOpen(c) ==
    /\ readers[c].st = "none"
    /\ streams' = create_stream(streams, jid)
    /\ readers' = [readers EXCEPT ![c] = [NoReader EXCEPT !.st = "waiting"]]
    /\ UNCHANGED orphan
    /\ UNCHANGED runVars
    /\ UNCHANGED <<wstreams, worker, other, visual, job_id, request>>
    /\ UNCHANGED streamVars

\* mutant: the event is read and left in the queue
ReaderGetPeeks(c) ==
    /\ readers[c].st = "waiting"
    /\ ReaderQueue(c) # <<>>
    /\ readers' = [readers EXCEPT ![c].st = "yielded",
                                  ![c].cur = Head(ReaderQueue(c)),
                                  ![c].got = Append(@, Head(ReaderQueue(c)))]
    /\ UNCHANGED <<orphan, streams>>
    /\ UNCHANGED runVars
    /\ UNCHANGED <<wstreams, worker, other, visual, job_id, request>>
    /\ UNCHANGED streamVars

\* lines 55-59: queue.get() hands the oldest event of the queue object to the
\* generator that waits on it, and the event is yielded
ReaderGet(c) ==
    /\ readers[c].st = "waiting"
    /\ ReaderQueue(c) # <<>>
    /\ readers' = [readers EXCEPT ![c].st = "yielded",
                                  ![c].cur = Head(ReaderQueue(c)),
                                  ![c].got = Append(@, Head(ReaderQueue(c)))]
    /\ IF readers[c].own
       THEN /\ orphan' = Tail(orphan)
            /\ UNCHANGED streams
       ELSE /\ streams' = [streams EXCEPT ![jid].q = Tail(@)]
            /\ UNCHANGED orphan
    /\ UNCHANGED runVars
    /\ UNCHANGED <<wstreams, worker, other, visual, job_id, request>>
    /\ UNCHANGED streamVars

\* lines 65-67: the wait times out on an empty queue: keep-alive
ReaderTimeout(c) ==
    /\ readers[c].st = "waiting"
    /\ ReaderQueue(c) = <<>>
    /\ readers' = [readers EXCEPT ![c].st = "yielded", ![c].cur = KeepAlive]
    /\ UNCHANGED <<orphan, streams>>
    /\ UNCHANGED runVars
    /\ UNCHANGED <<wstreams, worker, other, visual, job_id, request>>
    /\ UNCHANGED streamVars

\* lines 72-76: the finally block of generator c: the entry of the manager
\* is removed; a live generator that held that queue keeps it
ReaderFinally(c, ending) ==
    LET d == OtherReader(c)
        shared == ReaderLive(d) /\ ~readers[d].own /\ streams[jid].exists
    IN /\ streams' = delete_stream(streams, jid)
       /\ orphan' = IF shared THEN streams[jid].q
                     ELSE IF ReaderLive(d) /\ readers[d].own THEN orphan
                     ELSE <<>>
       /\ readers' = [readers EXCEPT ![c].st = ending,
                                     ![c].cur = NoEvent,
                                     ![c].own = FALSE,
                                     ![d].own = IF shared THEN TRUE ELSE @]

\* lines 61-63: resumed after a yield, the generator breaks after a terminal
\* event and waits again otherwise
ReaderResume(c) ==
    /\ readers[c].st = "yielded"
    /\ IF readers[c].cur.type \in TerminalTypes
       THEN ReaderFinally(c, "ended_terminal")
       ELSE /\ readers' = [readers EXCEPT ![c].st = "waiting"]
            /\ UNCHANGED <<orphan, streams>>
    /\ UNCHANGED runVars
    /\ UNCHANGED <<wstreams, worker, other, visual, job_id, request>>
    /\ UNCHANGED streamVars

\* the client of generator c disconnects
ReaderClose(c) ==
    /\ ReaderLive(c)
    /\ ReaderFinally(c, "disconnected")
    /\ UNCHANGED runVars
    /\ UNCHANGED <<wstreams, worker, other, visual, job_id, request>>
    /\ UNCHANGED streamVars

NextTwoReaders ==
    \/ PublishAny
    \/ \E c \in ReaderIds : ReaderOpen(c)
    \/ \E c \in ReaderIds : ReaderGet(c)
    \/ \E c \in ReaderIds : ReaderTimeout(c)
    \/ \E c \in ReaderIds : ReaderResume(c)
    \/ \E c \in ReaderIds : ReaderClose(c)

SpecTwoReaders == InitManager /\ [][NextTwoReaders]_vars

\* ------------------------------------------------------------ C34
CountOfType(evs, type) == Cardinality(EventsOfType(evs, type))

\* the events no generator has taken: in the manager's queue and in the
\* queue a generator holds after its removal
Untaken == streams[jid].q \o orphan

\* both generators are attached, or one has ended on a terminal event while
\* the other was attached with it
AttachedTogether ==
    \/ \A c \in ReaderIds : ReaderLive(c)
    \/ \E c \in ReaderIds :
          /\ readers[c].st = "ended_terminal"
          /\ ReaderLive(OtherReader(c))
          /\ readers[OtherReader(c)].own

\* C34: with two generators attached to one job id no published event is
\* yielded twice, and none is lost: the events yielded by the one, those
\* yielded by the other and those not taken yet are together the published
\* events; so a terminal event is yielded by one generator only, and no more
\* generators end on a terminal event than terminal events were published.
C34_EachEventToOneConsumer ==
    /\ \A type \in EventTypes :
          CountOfType(readers[1].got, type) + CountOfType(readers[2].got, type)
              <= CountOfType(published, type)
    /\ AttachedTogether =>
          \A type \in EventTypes :
              CountOfType(readers[1].got, type) + CountOfType(readers[2].got, type)
                  + CountOfType(Untaken, type) = CountOfType(published, type)
    /\ Cardinality({c \in ReaderIds : readers[c].st = "ended_terminal"})
          <= Cardinality(TerminalEvents(published))
    /\ \A c \in ReaderIds :
          readers[c].st = "ended_terminal" =>
              readers[c].got[Len(readers[c].got)].type \in TerminalTypes

\* both generators attached: each has yielded one event, the second of them
\* the only terminal event, and nothing else was published
C34_Witness ==
    /\ \A c \in ReaderIds : ReaderLive(c)
    /\ Len(readers[1].got) = 1
    /\ Len(readers[2].got) = 1
    /\ readers[1].got[1].type = "progress"
    /\ readers[2].st = "yielded"
    /\ readers[2].cur.type = "complete"
    /\ Len(published) = 2

====
